---- MODULE Spec2Model ----
(***************************************************************************)
(* The master supervisor of src/master_agent.py: a background scan loop    *)
(* (check_health, fetch_logs, run_ueba_analysis, sleep) that writes three  *)
(* module-level globals, and the /status handler that reads them.          *)
(*                                                                         *)
(* Time is counted in whole minutes.  A Python value that may be absent    *)
(* (a missing dict key, dict.get without a hit) is an option: <<>> when    *)
(* absent, <<x>> when present.                                             *)
(***************************************************************************)
EXTENDS Integers, Sequences, FiniteSets, TLC

VARIABLES
    pc,               \* position of the monitor thread in monitor_loop
    health_status,    \* global health_status: service name -> status string
    cached_logs,      \* global cached_logs: the list adopted by fetch_logs
    security_alerts,  \* global security_alerts: list(set(alerts))
    now,              \* the local `now` of the last rule evaluation
    probes,           \* what the probes of the last check_health got back
    fetch_reply,      \* what the last fetch_logs got back (without its body)
    cycle,            \* number of loop iterations begun so far
    written,          \* for each global, the iteration that last assigned it
    qpc,              \* position of the /status handler
    response,         \* the dict the /status handler builds and returns
    read_from         \* for each field of response, the iteration it was read in

vars == <<pc, health_status, cached_logs, security_alerts, now, probes,
          fetch_reply, cycle, written, qpc, response, read_from>>

scan_vars == <<pc, health_status, cached_logs, security_alerts, now, probes,
               fetch_reply, cycle, written>>

query_vars == <<qpc, response, read_from>>

----------------------------------------------------------------------------
(* Bounds of the model *)

\* loop iterations followed before the model stops starting new ones
MaxCycles == 2

\* longest log list of the families that are about rules 2 to 5
MaxLogs == 3

\* longest log list of the burst family (one user booking repeatedly)
MaxBurst == 4

\* the earlier of the two evaluation times, in minutes
Now0 == 20000

----------------------------------------------------------------------------
(* Generic helpers *)

Absent == <<>>

Some(x) == <<x>>

\* dict.get(key, default) on an option
Get(opt, default) == IF opt = Absent THEN default ELSE opt[1]

Range(s) == {s[i] : i \in DOMAIN s}

\* all sequences over E of length at most n
SeqsUpTo(E, n) == UNION {[1..k -> E] : k \in 0..n}

\* all sequences of distinct elements of E of length at most n
DistinctSeqsUpTo(E, n) ==
    {s \in SeqsUpTo(E, n) : \A i, j \in DOMAIN s : i # j => s[i] # s[j]}

\* A Python dict: its keys in insertion order and its values.
EmptyDict == [keys |-> <<>>, val |-> <<>>]

Has(d, k) == k \in Range(d.keys)

DictGet(d, k, default) == IF Has(d, k) THEN d.val[k] ELSE default

\* mutant: a key that is already there keeps its first value
DictSetKeepFirst(d, k, v) ==
    IF Has(d, k)
    THEN d
    ELSE [keys |-> Append(d.keys, k), val |-> (k :> v) @@ d.val]

DictSet(d, k, v) ==
    IF Has(d, k)
    THEN [d EXCEPT !.val = (k :> v) @@ d.val]
    ELSE [keys |-> Append(d.keys, k), val |-> (k :> v) @@ d.val]

\* list(set(xs)): every order in which the distinct elements can come out
ListOfSet(S) ==
    {s \in [1..Cardinality(S) -> S] : \A i, j \in DOMAIN s : i # j => s[i] # s[j]}

----------------------------------------------------------------------------
(* check_health *)

SERVICES ==
    {"Messaging_API", "Admin_API", "Car_API", "Vendor_API", "Model_API",
     "Booking_API", "Calling_API"}

\* What requests.get gives for one probe: it raises (timeout, connection
\* error, anything else), or it returns a response with a status code.
ProbeRaised == [raised |-> TRUE, status_code |-> 0]

ProbeReturned(code) == [raised |-> FALSE, status_code |-> code]

\* mutant: any response counts as ONLINE, whatever its status code
ProbeStatusAnyResponse(r) == IF r.raised THEN "DOWN" ELSE "ONLINE"

\* the try/except body of the loop of check_health, for one service
ProbeStatus(r) ==
    IF r.raised
    THEN "DOWN"
    ELSE IF r.status_code = 200
         THEN "ONLINE"
         ELSE "ERROR " \o ToString(r.status_code)

\* One run of check_health: every service is probed, the report is built
\* in a local and assigned to the global once, at the end.
check_health(outcomes) ==
    /\ pc = "check_health"
    /\ \E got \in outcomes :
          /\ probes' = Some(got)
          /\ health_status' = [name \in SERVICES |-> ProbeStatus(got[name])]
    /\ written' = [written EXCEPT !.health = cycle]
    /\ pc' = "fetch_logs"
    /\ UNCHANGED <<cached_logs, security_alerts, now, fetch_reply, cycle>>
    /\ UNCHANGED query_vars

----------------------------------------------------------------------------
(* fetch_logs *)

\* What requests.get(LOGS_API) and response.json() give: the call raises
\* (transport error, or a body that is not JSON), or there is a status code
\* and a decoded body that is a list (data) or something else.
FetchRaised == [raised |-> TRUE, status_code |-> 0, is_list |-> FALSE, data |-> <<>>]

FetchReturned(code, is_list, data) ==
    [raised |-> FALSE, status_code |-> code, is_list |-> is_list, data |-> data]

\* mutant: a list body is adopted whatever the status code
FetchedLogsIgnoringStatus(r) ==
    IF r.raised THEN <<>> ELSE IF r.is_list THEN r.data ELSE <<>>

\* the value fetch_logs assigns to cached_logs
FetchedLogs(r) ==
    IF r.raised
    THEN <<>>
    ELSE IF r.status_code = 200
         THEN IF r.is_list THEN r.data ELSE <<>>
         ELSE <<>>

fetch_logs(replies) ==
    /\ pc = "fetch_logs"
    /\ \E r \in replies :
          /\ cached_logs' = FetchedLogs(r)
          /\ fetch_reply' = Some([raised |-> r.raised, status_code |-> r.status_code,
                                  is_list |-> r.is_list])
    /\ written' = [written EXCEPT !.logs = cycle]
    /\ pc' = "run_ueba"
    /\ UNCHANGED <<health_status, security_alerts, now, probes, cycle>>
    /\ UNCHANGED query_vars

----------------------------------------------------------------------------
(* run_ueba_analysis: the values it works on *)

\* What datetime.fromisoformat(log["timestamp"].replace("Z", "+00:00")) gives:
\*   "unparsable"  the expression raises (no such key, not a string, not ISO)
\*   "aware"       a datetime with a UTC offset, t minutes on the UTC time line
\*   "naive"       a datetime without offset (the text carried neither Z nor one)
Aware(t) == [kind |-> "aware", t |-> t]

Naive(t) == [kind |-> "naive", t |-> t]

Unparsable == [kind |-> "unparsable", t |-> 0]

\* One element of the log list.  userId, vehicleId, logType, and the
\* severity and prediction.certainty of data, are options.
Log(ts, user, vehicle, type, severity, certainty) ==
    [timestamp |-> ts, userId |-> user, vehicleId |-> vehicle, logType |-> type,
     severity |-> severity, certainty |-> certainty]

\* timedelta(minutes=5), in minutes
WINDOW_MINUTES == 5

\* timedelta(days=7), in minutes
STALE_MINUTES == 10080

\* count > 3
BOOKING_LIMIT == 3

\* certainty < 50
LOW_CERTAINTY == 50

\* data.get("prediction", {}).get("certainty", 100)
DEFAULT_CERTAINTY == 100

\* a < b on two datetimes is a TypeError when one is naive and one aware;
\* five_minutes_ago and seven_days_ago are aware
ComparisonRaises(ts) == ts.kind = "naive"

----------------------------------------------------------------------------
(* run_ueba_analysis: the pass over cached_logs, lines 101-131 *)

NoAggregates ==
    [user_booking_count |-> EmptyDict, vehicle_users |-> EmptyDict,
     issue_records |-> EmptyDict, booking_records |-> <<>>, raised |-> FALSE]

\* mutant: a BOOKING is counted whatever its age
InWindowAlways(log_time, five_minutes_ago) == TRUE

\* log_time > five_minutes_ago
InWindow(log_time, five_minutes_ago) == log_time.t > five_minutes_ago

\* mutant: a vehicle's users are collected from BOOKING entries only
CountsForVehicleBookingOnly(log_type) == log_type = "BOOKING"

\* vehicle_users[vehicle].add(user) runs for every entry that is not skipped
CountsForVehicle(log_type) == TRUE

\* mutant: an ISSUE without certainty is recorded with certainty 0
CertaintyOfDefaultZero(log) == Get(log.certainty, 0)

\* data.get("prediction", {}).get("certainty", 100)
CertaintyOf(log) == Get(log.certainty, DEFAULT_CERTAINTY)

\* the body of the for loop, for one entry
AddLog(acc, log, five_minutes_ago) ==
    IF log.timestamp.kind = "unparsable"
    THEN acc                                              \* except: continue
    ELSE IF log.userId = Absent \/ log.vehicleId = Absent \/ log.logType = Absent
    THEN [acc EXCEPT !.raised = TRUE]                     \* KeyError, not caught
    ELSE
      LET user == log.userId[1]
          vehicle == log.vehicleId[1]
          log_type == log.logType[1]
          users == DictGet(acc.vehicle_users, vehicle, {})
          a1 == IF CountsForVehicle(log_type)
                THEN [acc EXCEPT !.vehicle_users = DictSet(@, vehicle, users \cup {user})]
                ELSE acc
          a2 == IF log_type = "ISSUE"
                THEN [a1 EXCEPT !.issue_records =
                         DictSet(@, <<user, vehicle>>,
                                 [time |-> log.timestamp,
                                  severity |-> log.severity,
                                  certainty |-> CertaintyOf(log)])]
                ELSE a1
      IN  IF log_type = "BOOKING"
          THEN LET a3 == [a2 EXCEPT !.booking_records =
                              Append(@, <<user, vehicle, log.timestamp>>)]
               IN  IF ComparisonRaises(log.timestamp)
                   THEN [a3 EXCEPT !.raised = TRUE]       \* TypeError, not caught
                   ELSE IF InWindow(log.timestamp, five_minutes_ago)
                        THEN [a3 EXCEPT !.user_booking_count =
                                 DictSet(@, user, DictGet(@, user, 0) + 1)]
                        ELSE a3
          ELSE a2

RECURSIVE Aggregate(_, _, _, _)
\* for log in cached_logs, from entry i on; an exception ends the loop
Aggregate(logs, i, acc, five_minutes_ago) ==
    IF acc.raised \/ i > Len(logs)
    THEN acc
    ELSE Aggregate(logs, i + 1, AddLog(acc, logs[i], five_minutes_ago), five_minutes_ago)

----------------------------------------------------------------------------
(* run_ueba_analysis: the five rules, lines 137-176 *)

ExcessiveMsg(user, count) ==
    "Anomaly: " \o user \o " created " \o ToString(count) \o " bookings in 5 minutes"

OrphanMsg(user, vehicle) ==
    "Suspicious: " \o user \o " booked " \o vehicle \o " without ISSUE record"

SharedMsg(vehicle) ==
    "Ownership anomaly: Vehicle " \o vehicle \o " used by multiple users"

IgnoredMsg(vehicle) == "Risk: HIGH severity issue ignored for " \o vehicle

LowCertaintyMsg(user, vehicle) ==
    "Suspicious: " \o user \o " booked " \o vehicle \o " despite low certainty"

\* [f(s[1]), ..., f(s[n])]
MapSeq(s, f(_)) == [i \in 1..Len(s) |-> f(s[i])]

\* rule 1, lines 137-141
ExcessiveBooking(agg) ==
    LET counts == agg.user_booking_count
        hit == SelectSeq(counts.keys, LAMBDA user : counts.val[user] > BOOKING_LIMIT)
    IN  MapSeq(hit, LAMBDA user : ExcessiveMsg(user, counts.val[user]))

\* mutant: a booking is an orphan when its user has no ISSUE for any vehicle
IsOrphanByUser(agg, b) ==
    \A k \in Range(agg.issue_records.keys) : k[1] # b[1]

\* (user, vehicle) not in issue_records
IsOrphan(agg, b) == ~Has(agg.issue_records, <<b[1], b[2]>>)

\* rule 2, lines 144-148
OrphanBooking(agg) ==
    LET hit == SelectSeq(agg.booking_records, LAMBDA b : IsOrphan(agg, b))
    IN  MapSeq(hit, LAMBDA b : OrphanMsg(b[1], b[2]))

\* rule 3, lines 151-155
SharedVehicle(agg) ==
    LET hit == SelectSeq(agg.vehicle_users.keys,
                         LAMBDA vehicle : Cardinality(agg.vehicle_users.val[vehicle]) > 1)
    IN  MapSeq(hit, LAMBDA vehicle : SharedMsg(vehicle))

\* any(u == user and v == vehicle for u, v, _ in booking_records)
Booked(agg, key) ==
    \E i \in DOMAIN agg.booking_records :
        /\ agg.booking_records[i][1] = key[1]
        /\ agg.booking_records[i][2] = key[2]

\* mutant: the booking test is left out
IsIgnoredEvenIfBooked(agg, key, seven_days_ago) ==
    /\ agg.issue_records.val[key].severity = Some("HIGH")
    /\ agg.issue_records.val[key].time.t < seven_days_ago

\* the three nested ifs of rule 4, for one issue record
IsIgnored(agg, key, seven_days_ago) ==
    /\ agg.issue_records.val[key].severity = Some("HIGH")
    /\ agg.issue_records.val[key].time.t < seven_days_ago
    /\ ~Booked(agg, key)

\* issue["time"] < seven_days_ago is reached for a HIGH issue only
IgnoredRiskRaises(agg) ==
    \E key \in Range(agg.issue_records.keys) :
        /\ agg.issue_records.val[key].severity = Some("HIGH")
        /\ ComparisonRaises(agg.issue_records.val[key].time)

\* rule 4, lines 158-168
IgnoredRisk(agg, seven_days_ago) ==
    LET hit == SelectSeq(agg.issue_records.keys,
                         LAMBDA key : IsIgnored(agg, key, seven_days_ago))
    IN  MapSeq(hit, LAMBDA key : IgnoredMsg(key[2]))

\* mutant: certainty <= 50
IsLowCertaintyInclusive(agg, b) ==
    /\ Has(agg.issue_records, <<b[1], b[2]>>)
    /\ agg.issue_records.val[<<b[1], b[2]>>].certainty <= LOW_CERTAINTY

\* mutant: the issue record is looked up by the vehicle alone
IsLowCertaintyByVehicle(agg, b) ==
    \E k \in Range(agg.issue_records.keys) :
        /\ k[2] = b[2]
        /\ agg.issue_records.val[k].certainty < LOW_CERTAINTY

\* issue and issue["certainty"] < 50
IsLowCertainty(agg, b) ==
    /\ Has(agg.issue_records, <<b[1], b[2]>>)
    /\ agg.issue_records.val[<<b[1], b[2]>>].certainty < LOW_CERTAINTY

\* rule 5, lines 171-176
LowCertaintyBooking(agg) ==
    LET hit == SelectSeq(agg.booking_records, LAMBDA b : IsLowCertainty(agg, b))
    IN  MapSeq(hit, LAMBDA b : LowCertaintyMsg(b[1], b[2]))

\* The body of run_ueba_analysis on a non-empty list, evaluated at time n:
\* whether an exception leaves the function, and the local list alerts
\* as it stands at line 178.
Ueba(logs, n) ==
    LET agg == Aggregate(logs, 1, NoAggregates, n - WINDOW_MINUTES)
    IN  IF agg.raised \/ IgnoredRiskRaises(agg)
        THEN [raised |-> TRUE, alerts |-> <<>>]
        ELSE [raised |-> FALSE,
              alerts |-> ExcessiveBooking(agg) \o OrphanBooking(agg)
                         \o SharedVehicle(agg) \o IgnoredRisk(agg, n - STALE_MINUTES)
                         \o LowCertaintyBooking(agg)]

\* mutant: the list is published as the rules built it
AlertsAsEmitted(alerts) == {alerts}

\* list(set(alerts)), line 181: the orders the distinct messages can come out in
Dedup(alerts) == ListOfSet(Range(alerts))

\* the evaluation times the model draws `now` from
Nows == {Now0, Now0 + 1}

\* mutant: an empty log list leaves the alerts of the previous cycle in place
AlertsForNoLogsStale(old) == old

\* security_alerts = [] of the early return, lines 92-95
AlertsForNoLogs(old) == <<>>

run_ueba_analysis ==
    /\ pc = "run_ueba"
    /\ IF cached_logs = <<>>
       THEN /\ security_alerts' = AlertsForNoLogs(security_alerts)
            /\ written' = [written EXCEPT !.alerts = cycle]
            /\ pc' = "sleep"
            /\ UNCHANGED now
       ELSE \E n \in Nows :
              LET r == Ueba(cached_logs, n)
              IN  /\ now' = n
                  /\ IF r.raised
                     THEN \* the exception leaves monitor_loop: the thread ends
                          /\ pc' = "crashed"
                          /\ UNCHANGED <<security_alerts, written>>
                     ELSE /\ security_alerts' \in Dedup(r.alerts)
                          /\ written' = [written EXCEPT !.alerts = cycle]
                          /\ pc' = "sleep"
    /\ UNCHANGED <<health_status, cached_logs, probes, fetch_reply, cycle>>
    /\ UNCHANGED query_vars

----------------------------------------------------------------------------
(* monitor_loop and its thread *)

\* mutant: a monitor thread is started whatever the running one is doing
start_monitor_again ==
    /\ cycle < MaxCycles
    /\ pc' = "check_health"
    /\ cycle' = cycle + 1
    /\ UNCHANGED <<health_status, cached_logs, security_alerts, now, probes,
                   fetch_reply, written>>
    /\ UNCHANGED query_vars

\* @app.on_event("startup"): the thread is created once and enters the loop
start_monitor ==
    /\ pc = "not_started"
    /\ pc' = "check_health"
    /\ cycle' = cycle + 1
    /\ UNCHANGED <<health_status, cached_logs, security_alerts, now, probes,
                   fetch_reply, written>>
    /\ UNCHANGED query_vars

\* mutant: the next scan goes straight to the rule engine
sleep_then_evaluate_only ==
    /\ pc = "sleep"
    /\ cycle < MaxCycles
    /\ pc' = "run_ueba"
    /\ cycle' = cycle + 1
    /\ UNCHANGED <<health_status, cached_logs, security_alerts, now, probes,
                   fetch_reply, written>>
    /\ UNCHANGED query_vars

\* time.sleep(FETCH_INTERVAL) returns and `while True` starts the next scan
sleep ==
    /\ pc = "sleep"
    /\ cycle < MaxCycles
    /\ pc' = "check_health"
    /\ cycle' = cycle + 1
    /\ UNCHANGED <<health_status, cached_logs, security_alerts, now, probes,
                   fetch_reply, written>>
    /\ UNCHANGED query_vars

\* one step of the monitor thread
monitor_loop(outcomes, replies) ==
    \/ check_health(outcomes)
    \/ fetch_logs(replies)
    \/ run_ueba_analysis
    \/ sleep

----------------------------------------------------------------------------
(* dashboard: GET /status.  The dict display reads the three globals one     *)
(* after the other; the monitor thread can run between two reads.            *)

NoResponse == [services_health |-> <<>>, total_logs_analyzed |-> 0, security_alerts |-> <<>>]

NeverRead == [health |-> 0, logs |-> 0, alerts |-> 0]

\* mutant: the query clears the published alerts while it reads the health map
dashboard_health_clearing_alerts ==
    /\ qpc \in {"idle", "returned"}
    /\ response' = [NoResponse EXCEPT !.services_health = health_status]
    /\ read_from' = [NeverRead EXCEPT !.health = written.health]
    /\ qpc' = "read_logs"
    /\ security_alerts' = <<>>
    /\ UNCHANGED <<pc, health_status, cached_logs, now, probes, fetch_reply, cycle, written>>

\* "services_health": health_status
dashboard_health ==
    /\ qpc \in {"idle", "returned"}
    /\ response' = [NoResponse EXCEPT !.services_health = health_status]
    /\ read_from' = [NeverRead EXCEPT !.health = written.health]
    /\ qpc' = "read_logs"
    /\ UNCHANGED scan_vars

\* "total_logs_analyzed": len(cached_logs)
dashboard_logs ==
    /\ qpc = "read_logs"
    /\ response' = [response EXCEPT !.total_logs_analyzed = Len(cached_logs)]
    /\ read_from' = [read_from EXCEPT !.logs = written.logs]
    /\ qpc' = "read_alerts"
    /\ UNCHANGED scan_vars

\* "security_alerts": security_alerts, and the dict is returned
dashboard_alerts ==
    /\ qpc = "read_alerts"
    /\ response' = [response EXCEPT !.security_alerts = security_alerts]
    /\ read_from' = [read_from EXCEPT !.alerts = written.alerts]
    /\ qpc' = "returned"
    /\ UNCHANGED scan_vars

dashboard == dashboard_health \/ dashboard_logs \/ dashboard_alerts

----------------------------------------------------------------------------
(* The state after the module is imported, lines 34-36 *)

Init ==
    /\ pc = "not_started"
    /\ health_status = <<>>
    /\ cached_logs = <<>>
    /\ security_alerts = <<>>
    /\ now = Now0
    /\ probes = Absent
    /\ fetch_reply = Absent
    /\ cycle = 0
    /\ written = NeverRead
    /\ qpc = "idle"
    /\ response = NoResponse
    /\ read_from = NeverRead

----------------------------------------------------------------------------
(* Inputs: what the probed services and the log store send back *)

AllOnline == [name \in SERVICES |-> ProbeReturned(200)]

\* three probe rounds for the runs that are about logs and queries
ProbesSmall ==
    {AllOnline,
     [AllOnline EXCEPT !["Booking_API"] = ProbeRaised],
     [AllOnline EXCEPT !["Model_API"] = ProbeReturned(503)]}

\* what one failing probe can give: another status code, or an exception
ProbeFailures == {ProbeReturned(404), ProbeReturned(503), ProbeRaised}

\* every probe round in which at most two services fail, in every way
ProbesAll ==
    {[[AllOnline EXCEPT ![a] = fa] EXCEPT ![b] = fb] :
        <<a, b, fa, fb>> \in SERVICES \X SERVICES
                              \X (ProbeFailures \cup {ProbeReturned(200)})
                              \X (ProbeFailures \cup {ProbeReturned(200)})}

\* Times of log entries, relative to the evaluation times Now0 and Now0 + 1
Recent == Aware(Now0 - WINDOW_MINUTES + 1)   \* inside the window at Now0 only

Older == Aware(Now0 - WINDOW_MINUTES - 1)    \* outside the window

Future == Aware(Now0 + 2)                    \* later than both evaluation times

Stale == Aware(Now0 - STALE_MINUTES - 1)     \* older than 7 days

JustStale == Aware(Now0 - STALE_MINUTES)     \* older than 7 days at Now0 + 1 only

Booking(ts, user, vehicle) ==
    Log(ts, Some(user), Some(vehicle), Some("BOOKING"), Absent, Absent)

Issue(ts, user, vehicle, severity, certainty) ==
    Log(ts, Some(user), Some(vehicle), Some("ISSUE"), Some(severity), certainty)

\* the replies of the log store that carry the lists of P, and its failures
RepliesOf(P) ==
    {FetchReturned(200, TRUE, p) : p \in P}
      \cup {FetchReturned(500, TRUE, p) : p \in {q \in P : Len(q) <= 1}}
      \cup {FetchRaised, FetchReturned(200, FALSE, <<>>), FetchReturned(404, FALSE, <<>>)}

\* a few lists for the runs that are about the loop and the queries
PayloadsSmall ==
    {<<>>,
     <<Booking(Recent, "U1", "V1")>>,
     <<Issue(Stale, "U2", "V1", "HIGH", Some(40)), Booking(Recent, "U1", "V1")>>,
     <<Log(Recent, Absent, Some("V1"), Some("BOOKING"), Absent, Absent)>>}

\* rule 1: bursts of bookings of one user, in and out of the window
EntriesBurst ==
    {Booking(Recent, "U1", "V1"), Booking(Older, "U1", "V1"),
     Booking(Future, "U1", "V1"), Booking(Recent, "U2", "V1")}

PayloadsBurst == SeqsUpTo(EntriesBurst, MaxBurst)

\* rule 2: bookings and issues of neighbouring pairs
EntriesOrphan ==
    {Booking(Recent, "U1", "V1"), Booking(Unparsable, "U1", "V1"),
     Issue(Recent, "U1", "V1", "LOW", Absent), Issue(Unparsable, "U1", "V1", "LOW", Absent),
     Issue(Recent, "U1", "V2", "LOW", Absent), Issue(Recent, "U2", "V1", "LOW", Absent)}

PayloadsOrphan == DistinctSeqsUpTo(EntriesOrphan, MaxLogs)

\* rule 3: entries of three log types that tie users to vehicles
EntriesShared ==
    {Issue(Recent, "U1", "V1", "LOW", Absent),
     Log(Recent, Some("U1"), Some("V1"), Some("OTHER"), Absent, Absent),
     Log(Recent, Some("U2"), Some("V1"), Some("OTHER"), Absent, Absent),
     Issue(Older, "U2", "V1", "LOW", Absent),
     Issue(Unparsable, "U2", "V1", "LOW", Absent),
     Issue(Recent, "U2", "V2", "LOW", Absent)}

PayloadsShared == DistinctSeqsUpTo(EntriesShared, MaxLogs)

\* rule 4: issues of every age and severity, with and without bookings
EntriesIgnored ==
    {Issue(Stale, "U1", "V1", "HIGH", Absent), Issue(JustStale, "U1", "V1", "HIGH", Absent),
     Issue(Stale, "U1", "V1", "LOW", Absent), Issue(Stale, "U2", "V1", "HIGH", Absent),
     Booking(Recent, "U1", "V1"), Booking(Unparsable, "U1", "V1"),
     Booking(Recent, "U1", "V2")}

PayloadsIgnored == DistinctSeqsUpTo(EntriesIgnored, MaxLogs)

\* rule 5: issues of every certainty, with bookings
EntriesCertainty ==
    {Issue(Recent, "U1", "V1", "LOW", Some(40)), Issue(Recent, "U1", "V1", "LOW", Some(50)),
     Issue(Recent, "U1", "V1", "LOW", Some(60)), Issue(Recent, "U1", "V1", "LOW", Absent),
     Issue(Recent, "U2", "V1", "LOW", Some(40)),
     Booking(Recent, "U1", "V1"), Booking(Unparsable, "U1", "V1")}

PayloadsCertainty == DistinctSeqsUpTo(EntriesCertainty, MaxLogs)

\* entries the log store can send that lack a field or carry an odd timestamp
EntriesMalformed ==
    {Booking(Recent, "U1", "V1"),
     Booking(Unparsable, "U1", "V1"),
     Booking(Naive(Now0), "U1", "V1"),
     Issue(Naive(Now0), "U1", "V1", "HIGH", Absent),
     Issue(Naive(Now0), "U1", "V1", "LOW", Absent),
     Log(Recent, Absent, Some("V1"), Some("BOOKING"), Absent, Absent),
     Log(Recent, Some("U1"), Absent, Some("BOOKING"), Absent, Absent),
     Log(Recent, Some("U1"), Some("V1"), Absent, Absent, Absent)}

PayloadsMalformed == DistinctSeqsUpTo(EntriesMalformed, MaxLogs)

\* several entries for one pair: issues that differ in time, severity and
\* certainty, bookings that repeat, and a second user on the same vehicle
EntriesFeed ==
    {Issue(Stale, "U1", "V1", "HIGH", Some(40)), Issue(Recent, "U1", "V1", "LOW", Some(60)),
     Issue(Unparsable, "U1", "V1", "LOW", Some(40)),
     Booking(Recent, "U1", "V1"), Booking(Older, "U1", "V1"), Booking(Recent, "U2", "V1")}

PayloadsFeed == DistinctSeqsUpTo(EntriesFeed, MaxLogs)

----------------------------------------------------------------------------
(* Specifications *)

\* the supervisor as a whole: the monitor thread and a /status request
Next ==
    \/ start_monitor
    \/ monitor_loop(ProbesSmall, RepliesOf(PayloadsSmall))
    \/ dashboard

Spec == Init /\ [][Next]_vars

\* the monitor thread under every combination of probe outcomes
NextHealth == start_monitor \/ monitor_loop(ProbesAll, RepliesOf({<<>>}))

SpecHealth == Init /\ [][NextHealth]_vars

\* the monitor thread fed with the lists of one family
NextBurst == start_monitor \/ monitor_loop({AllOnline}, RepliesOf(PayloadsBurst))

SpecBurst == Init /\ [][NextBurst]_vars

NextOrphan == start_monitor \/ monitor_loop({AllOnline}, RepliesOf(PayloadsOrphan))

SpecOrphan == Init /\ [][NextOrphan]_vars

NextShared == start_monitor \/ monitor_loop({AllOnline}, RepliesOf(PayloadsShared))

SpecShared == Init /\ [][NextShared]_vars

NextIgnored == start_monitor \/ monitor_loop({AllOnline}, RepliesOf(PayloadsIgnored))

SpecIgnored == Init /\ [][NextIgnored]_vars

NextCertainty == start_monitor \/ monitor_loop({AllOnline}, RepliesOf(PayloadsCertainty))

SpecCertainty == Init /\ [][NextCertainty]_vars

NextFeed == start_monitor \/ monitor_loop({AllOnline}, RepliesOf(PayloadsFeed))

SpecFeed == Init /\ [][NextFeed]_vars

NextMalformed == start_monitor \/ monitor_loop({AllOnline}, RepliesOf(PayloadsMalformed))

SpecMalformed == Init /\ [][NextMalformed]_vars

----------------------------------------------------------------------------
(* Claims *)

\* C1: every answered status query holds a health map, a log count and an
\* alert list that were all written by the same scan cycle (or are all the
\* initial values).
C1_QuerySeesOneCycle ==
    qpc = "returned" =>
        /\ read_from.health = read_from.logs
        /\ read_from.logs = read_from.alerts

\* C2: nothing the probes or the log store send back ends the scan loop: the
\* monitor thread is never terminated by an exception.
C2_LoopNeverEnds == pc # "crashed"

\* an entry C3 says is skipped: unparsable timestamp, or no userId,
\* vehicleId or logType
Malformed(log) ==
    \/ log.timestamp.kind = "unparsable"
    \/ log.userId = Absent
    \/ log.vehicleId = Absent
    \/ log.logType = Absent

HasNaive(logs) == \E i \in DOMAIN logs : logs[i].timestamp.kind = "naive"

\* C3: when the rule evaluation of a cycle has ended on a list whose
\* timestamps are unparsable or carry an offset, it was not aborted, and the
\* alerts it published are those computed from the list without its
\* malformed entries.
C3_MalformedEntriesSkipped ==
    (pc \in {"sleep", "crashed"} /\ cached_logs # <<>> /\ ~HasNaive(cached_logs)) =>
        /\ pc = "sleep"
        /\ LET kept == SelectSeq(cached_logs, LAMBDA log : ~Malformed(log))
           IN  Range(security_alerts) =
                   IF kept = <<>> THEN {} ELSE Range(Ueba(kept, now).alerts)

\* a fetch that ended in an exception, a non-200 status or a non-list body
FetchFailed(r) == r.raised \/ r.status_code # 200 \/ ~r.is_list

\* C4: at the end of a cycle whose log fetch failed, the log snapshot and the
\* alert list are both empty.
C4_FailedFetchPublishesEmpty ==
    (pc = "sleep" /\ fetch_reply # Absent /\ FetchFailed(fetch_reply[1])) =>
        /\ Len(cached_logs) = 0
        /\ Len(security_alerts) = 0

\* C4 witness: a second cycle's fetch came back 500 with a list body, the cycle
\* is over, and a query answered during it still shows the alerts the first
\* cycle had published.
C4_Witness ==
    /\ pc = "sleep"
    /\ cycle = 2
    /\ fetch_reply = Some([raised |-> FALSE, status_code |-> 500, is_list |-> TRUE])
    /\ cached_logs = <<>>
    /\ security_alerts = <<>>
    /\ qpc = "returned"
    /\ read_from.alerts = 1
    /\ Len(response.security_alerts) > 0

\* the status string the documentation gives for a probe outcome
ExpectedStatus(r) ==
    CASE r.raised -> "DOWN"
      [] ~r.raised /\ r.status_code = 200 -> "ONLINE"
      [] ~r.raised /\ r.status_code = 404 -> "ERROR 404"
      [] ~r.raised /\ r.status_code = 503 -> "ERROR 503"

\* C5: once check_health has run, services_health has exactly the configured
\* services as keys and each value follows from that service's own probe;
\* before the first run it is empty.
C5_HealthPerService ==
    IF probes = Absent
    THEN DOMAIN health_status = {}
    ELSE /\ DOMAIN health_status = SERVICES
         /\ \A name \in SERVICES : health_status[name] = ExpectedStatus(probes[1][name])

\* C5 witness: one probe raised, one returned 503, the rest returned 200
C5_Witness ==
    /\ pc = "fetch_logs"
    /\ probes # Absent
    /\ probes[1]["Booking_API"].raised
    /\ probes[1]["Model_API"] = ProbeReturned(503)
    /\ health_status["Booking_API"] = "DOWN"
    /\ health_status["Model_API"] = "ERROR 503"
    /\ \A name \in SERVICES \ {"Booking_API", "Model_API"} : health_status[name] = "ONLINE"

----------------------------------------------------------------------------
(* Claims about the rules.  They are read off cached_logs and the published *)
(* list directly, not off the aggregates of the engine.                     *)

\* the rule evaluation of this cycle ran on a non-empty list and published
Evaluated == pc = "sleep" /\ cached_logs # <<>>

Published == Range(security_alerts)

\* how often a message stands in the published list
Times(msg) == Cardinality({i \in DOMAIN security_alerts : security_alerts[i] = msg})

Parsable(log) == log.timestamp.kind # "unparsable"

IsEntry(log, type, user, vehicle) ==
    /\ log.logType = Some(type)
    /\ log.userId = Some(user)
    /\ log.vehicleId = Some(vehicle)

UsersOf(logs) == {logs[i].userId[1] : i \in {j \in DOMAIN logs : logs[j].userId # Absent}}

VehiclesOf(logs) ==
    {logs[i].vehicleId[1] : i \in {j \in DOMAIN logs : logs[j].vehicleId # Absent}}

\* entry i is the last ISSUE entry for (user, vehicle) that is not skipped
LastIssueAt(logs, i, user, vehicle) ==
    /\ Parsable(logs[i])
    /\ IsEntry(logs[i], "ISSUE", user, vehicle)
    /\ \A j \in DOMAIN logs :
          j > i => ~(Parsable(logs[j]) /\ IsEntry(logs[j], "ISSUE", user, vehicle))

IgnoredText(vehicle) == "Risk: HIGH severity issue ignored for " \o vehicle

\* an entry that is a HIGH ISSUE for (user, vehicle) with a time on the time line
HighIssue(log, user, vehicle) ==
    /\ IsEntry(log, "ISSUE", user, vehicle)
    /\ log.severity = Some("HIGH")
    /\ log.timestamp.kind = "aware"

\* C6 as stated: for every HIGH ISSUE entry for (U, V) older than 7 days the
\* alert for V is published exactly when no BOOKING entry for (U, V) is in
\* the snapshot; a HIGH ISSUE entry not older than 7 days brings no alert
\* for V (one is published only if V has another, older HIGH ISSUE entry).
C6_IgnoredRiskPerIssueEntry ==
    Evaluated =>
      \A user \in UsersOf(cached_logs), vehicle \in VehiclesOf(cached_logs) :
        \A i \in DOMAIN cached_logs :
          HighIssue(cached_logs[i], user, vehicle) =>
            IF cached_logs[i].timestamp.t < now - 7 * 24 * 60
            THEN IgnoredText(vehicle) \in Published
                   <=> ~\E j \in DOMAIN cached_logs :
                          IsEntry(cached_logs[j], "BOOKING", user, vehicle)
            ELSE IgnoredText(vehicle) \in Published
                   => \E k \in DOMAIN cached_logs, other \in UsersOf(cached_logs) :
                         /\ HighIssue(cached_logs[k], other, vehicle)
                         /\ cached_logs[k].timestamp.t < now - 7 * 24 * 60

\* C6 amended: the alert for V is published exactly when some user's last
\* ISSUE entry for (U, V) in feed order, among the entries with a parsable
\* timestamp, is HIGH and older than 7 days, and no BOOKING entry with a
\* parsable timestamp is there for (U, V).
C6_IgnoredRiskLastIssue ==
    Evaluated =>
      \A vehicle \in VehiclesOf(cached_logs) :
        IgnoredText(vehicle) \in Published
          <=> \E user \in UsersOf(cached_logs), i \in DOMAIN cached_logs :
                /\ LastIssueAt(cached_logs, i, user, vehicle)
                /\ cached_logs[i].severity = Some("HIGH")
                /\ cached_logs[i].timestamp.t < now - 7 * 24 * 60
                /\ ~\E j \in DOMAIN cached_logs :
                       /\ Parsable(cached_logs[j])
                       /\ IsEntry(cached_logs[j], "BOOKING", user, vehicle)

\* C6 witness: U1's old HIGH issue on V1 is booked, U2's is not, and the
\* alert for V1 is published
C6_Witness ==
    /\ Evaluated
    /\ cached_logs = <<Issue(Stale, "U1", "V1", "HIGH", Absent),
                       Booking(Recent, "U1", "V1"),
                       Issue(Stale, "U2", "V1", "HIGH", Absent)>>
    /\ Published = {"Risk: HIGH severity issue ignored for V1",
                    "Ownership anomaly: Vehicle V1 used by multiple users"}

OrphanText(user, vehicle) ==
    "Suspicious: " \o user \o " booked " \o vehicle \o " without ISSUE record"

\* C7 as stated: for every BOOKING entry for (U, V) the orphan alert for U
\* and V is published exactly when the snapshot holds no ISSUE entry for (U, V).
C7_OrphanPerBookingEntry ==
    Evaluated =>
      \A user \in UsersOf(cached_logs), vehicle \in VehiclesOf(cached_logs) :
        (\E i \in DOMAIN cached_logs : IsEntry(cached_logs[i], "BOOKING", user, vehicle)) =>
            (OrphanText(user, vehicle) \in Published
               <=> ~\E j \in DOMAIN cached_logs :
                      IsEntry(cached_logs[j], "ISSUE", user, vehicle))

\* C7 amended: the same, over the entries with a parsable timestamp.
C7_OrphanPerParsableBooking ==
    Evaluated =>
      \A user \in UsersOf(cached_logs), vehicle \in VehiclesOf(cached_logs) :
        (\E i \in DOMAIN cached_logs :
            Parsable(cached_logs[i]) /\ IsEntry(cached_logs[i], "BOOKING", user, vehicle)) =>
            (OrphanText(user, vehicle) \in Published
               <=> ~\E j \in DOMAIN cached_logs :
                      /\ Parsable(cached_logs[j])
                      /\ IsEntry(cached_logs[j], "ISSUE", user, vehicle))

\* C7 witness: a booking whose only ISSUE entry has an unparsable timestamp
C7_Witness ==
    /\ Evaluated
    /\ cached_logs = <<Issue(Unparsable, "U1", "V1", "LOW", Absent),
                       Booking(Recent, "U1", "V1")>>
    /\ Published = {"Suspicious: U1 booked V1 without ISSUE record"}

ExcessiveText(user, count) ==
    "Anomaly: " \o user \o " created " \o ToString(count) \o " bookings in 5 minutes"

\* the BOOKING entries of the user stamped within the 5 minutes before n
BookingsInLastFiveMinutes(logs, user, n) ==
    {i \in DOMAIN logs :
        /\ logs[i].logType = Some("BOOKING")
        /\ logs[i].userId = Some(user)
        /\ logs[i].timestamp.kind = "aware"
        /\ logs[i].timestamp.t > n - 5
        /\ logs[i].timestamp.t <= n}

\* C8: a user with more than 3 BOOKING entries stamped within the last 5
\* minutes before now gets exactly one excessive-booking alert, carrying that
\* count, and any other user gets none.
C8_ExcessivePerUserInWindow ==
    Evaluated =>
      \A user \in UsersOf(cached_logs) :
        LET count == Cardinality(BookingsInLastFiveMinutes(cached_logs, user, now))
        IN  \A k \in 1..Len(cached_logs) :
              Times(ExcessiveText(user, k)) = IF count > 3 /\ k = count THEN 1 ELSE 0

SharedText(vehicle) ==
    "Ownership anomaly: Vehicle " \o vehicle \o " used by multiple users"

\* C9 as stated: the shared-vehicle alert for V stands once in the published
\* list when the entries of the snapshot tie V to two or more users, and not
\* at all otherwise.
C9_SharedPerVehicleAllEntries ==
    Evaluated =>
      \A vehicle \in VehiclesOf(cached_logs) :
        LET users == {cached_logs[i].userId[1] :
                         i \in {j \in DOMAIN cached_logs :
                                   /\ cached_logs[j].vehicleId = Some(vehicle)
                                   /\ cached_logs[j].userId # Absent}}
        IN  Times(SharedText(vehicle)) = IF Cardinality(users) >= 2 THEN 1 ELSE 0

\* C9 amended: the same, over the entries with a parsable timestamp.
C9_SharedPerVehicleParsable ==
    Evaluated =>
      \A vehicle \in VehiclesOf(cached_logs) :
        LET users == {cached_logs[i].userId[1] :
                         i \in {j \in DOMAIN cached_logs :
                                   /\ Parsable(cached_logs[j])
                                   /\ cached_logs[j].vehicleId = Some(vehicle)
                                   /\ cached_logs[j].userId # Absent}}
        IN  Times(SharedText(vehicle)) = IF Cardinality(users) >= 2 THEN 1 ELSE 0

\* C9 witness: an ISSUE of U1 and an entry of another type of U2 share V1
C9_Witness ==
    /\ Evaluated
    /\ cached_logs = <<Issue(Recent, "U1", "V1", "LOW", Absent),
                       Log(Recent, Some("U2"), Some("V1"), Some("OTHER"), Absent, Absent)>>
    /\ security_alerts = <<"Ownership anomaly: Vehicle V1 used by multiple users">>

LowCertaintyText(user, vehicle) ==
    "Suspicious: " \o user \o " booked " \o vehicle \o " despite low certainty"

\* the certainty of an ISSUE entry, 100 when it carries none
CertaintyAt(logs, i) == IF logs[i].certainty = Absent THEN 100 ELSE logs[i].certainty[1]

\* C10 as stated: for every BOOKING entry for (U, V) whose pair has an issue
\* record, the low-certainty alert for U and V is published exactly when the
\* certainty of that record is below 50.
C10_LowCertaintyPerBookingEntry ==
    Evaluated =>
      \A user \in UsersOf(cached_logs), vehicle \in VehiclesOf(cached_logs) :
        \A i \in DOMAIN cached_logs :
          (/\ LastIssueAt(cached_logs, i, user, vehicle)
           /\ \E j \in DOMAIN cached_logs :
                 IsEntry(cached_logs[j], "BOOKING", user, vehicle)) =>
              (LowCertaintyText(user, vehicle) \in Published
                 <=> CertaintyAt(cached_logs, i) < 50)

\* C10 amended: the same, for every BOOKING entry with a parsable timestamp.
C10_LowCertaintyPerParsableBooking ==
    Evaluated =>
      \A user \in UsersOf(cached_logs), vehicle \in VehiclesOf(cached_logs) :
        \A i \in DOMAIN cached_logs :
          (/\ LastIssueAt(cached_logs, i, user, vehicle)
           /\ \E j \in DOMAIN cached_logs :
                 /\ Parsable(cached_logs[j])
                 /\ IsEntry(cached_logs[j], "BOOKING", user, vehicle)) =>
              (LowCertaintyText(user, vehicle) \in Published
                 <=> CertaintyAt(cached_logs, i) < 50)

\* C10 witness: a booking on a pair whose issue record has certainty 40
C10_Witness ==
    /\ Evaluated
    /\ cached_logs = <<Issue(Recent, "U1", "V1", "LOW", Some(40)),
                       Booking(Recent, "U1", "V1")>>
    /\ security_alerts = <<"Suspicious: U1 booked V1 despite low certainty">>

\* the messages the five rules emit for the list at evaluation time n
EmittedByRules(logs, n) ==
    LET agg == Aggregate(logs, 1, NoAggregates, n - 5)
    IN  Range(ExcessiveBooking(agg)) \cup Range(OrphanBooking(agg))
          \cup Range(SharedVehicle(agg)) \cup Range(IgnoredRisk(agg, n - 7 * 24 * 60))
          \cup Range(LowCertaintyBooking(agg))

\* C11: the published list holds every message the five rules emitted,
\* nothing else, and no message twice.
C11_AlertsAreTheEmittedSet ==
    Evaluated =>
        /\ Published = EmittedByRules(cached_logs, now)
        /\ \A i, j \in DOMAIN security_alerts :
              i # j => security_alerts[i] # security_alerts[j]

\* C11 witness: two bookings of one pair made rule 2 emit the same message
\* twice (four messages emitted), and it is published once
C11_Witness ==
    /\ Evaluated
    /\ cached_logs = <<Booking(Recent, "U2", "V1"), Booking(Recent, "U1", "V1"),
                       Booking(Older, "U1", "V1")>>
    /\ Len(Ueba(cached_logs, now).alerts) = 4
    /\ Published = {"Suspicious: U2 booked V1 without ISSUE record",
                    "Suspicious: U1 booked V1 without ISSUE record",
                    "Ownership anomaly: Vehicle V1 used by multiple users"}
    /\ Len(security_alerts) = 3

----------------------------------------------------------------------------
(* GET /status next to the monitor thread *)

\* C12: the status query can always take its next step, whatever the monitor
\* thread is doing or has suffered, and a step of the query changes none of
\* the monitor's state: not the health map, the log snapshot or the alert
\* list, and not the position or the number of the scan cycle.
C12_QueryReadOnlyAlwaysAnswers ==
    /\ [](ENABLED dashboard)
    /\ [][query_vars' # query_vars => UNCHANGED scan_vars]_vars

\* C12 witness: a query has answered in the middle of a cycle whose probes and
\* whose fetch both failed, returning the alerts still published
C12_Witness ==
    /\ qpc = "returned"
    /\ pc = "run_ueba"
    /\ \E s \in SERVICES : health_status[s] = "DOWN"
    /\ fetch_reply # Absent /\ fetch_reply[1].raised
    /\ cached_logs = <<>>
    /\ read_from.health = cycle /\ read_from.logs = cycle
    /\ response.security_alerts = security_alerts

----------------------------------------------------------------------------
(* The order of the steps of a scan *)

\* the steps of cycle number `cycle` that have stored their result
StepsDone ==
    [health |-> written.health = cycle, logs |-> written.logs = cycle,
     alerts |-> written.alerts = cycle]

\* what the rule engine leaves in security_alerts for the snapshot `logs`
EngineResult(logs, n) == IF logs = <<>> THEN {} ELSE EmittedByRules(logs, n)

\* C13: in every cycle the health probe stores its result first, the log fetch
\* second and the rule engine last; the engine runs only when this cycle's
\* fetch has stored its snapshot and the engine has not yet run in this cycle,
\* it leaves the snapshot as the fetch stored it, and what it publishes is the
\* result of the rules on exactly that snapshot.
C13_StepsInOrderEngineOnce ==
    /\ [](/\ (pc = "check_health" =>
                written = [health |-> cycle - 1, logs |-> cycle - 1, alerts |-> cycle - 1])
           /\ (pc = "fetch_logs" =>
                written = [health |-> cycle, logs |-> cycle - 1, alerts |-> cycle - 1])
           /\ (pc \in {"run_ueba", "crashed"} =>
                written = [health |-> cycle, logs |-> cycle, alerts |-> cycle - 1])
           /\ (pc = "sleep" =>
                written = [health |-> cycle, logs |-> cycle, alerts |-> cycle]))
    /\ [][(written.alerts' # written.alerts \/ security_alerts' # security_alerts
                \/ (pc' = "crashed" /\ pc # "crashed")) =>
             /\ pc = "run_ueba"
             /\ StepsDone = [health |-> TRUE, logs |-> TRUE, alerts |-> FALSE]
             /\ cached_logs' = cached_logs
             /\ cycle' = cycle
             /\ (pc' = "sleep" =>
                    /\ written.alerts' = cycle
                    /\ Range(security_alerts') = EngineResult(cached_logs, now'))]_vars

\* C13 witness: the second cycle has run its three steps, the fetch adopted a
\* list and the engine published the alerts of that list
C13_Witness ==
    /\ pc = "sleep"
    /\ cycle = 2
    /\ StepsDone = [health |-> TRUE, logs |-> TRUE, alerts |-> TRUE]
    /\ fetch_reply # Absent /\ fetch_reply[1].status_code = 200
    /\ cached_logs # <<>>
    /\ Published # {}
    /\ Published = EmittedByRules(cached_logs, now)

\* C14: a scan cycle starts only when the thread is created or when the
\* previous cycle has stored the results of all its three steps and is
\* sleeping; cycles are numbered one after the other, and the thread is created
\* only once, so no scan starts while another is in progress.
C14_OneScanAtATime ==
    /\ [](pc = "not_started" <=> cycle = 0)
    /\ [][pc # "not_started" => pc' # "not_started"]_vars
    /\ [][cycle' # cycle =>
             /\ cycle' = cycle + 1
             /\ pc' = "check_health"
             /\ IF cycle = 0
                THEN pc = "not_started"
                ELSE /\ pc = "sleep"
                     /\ StepsDone = [health |-> TRUE, logs |-> TRUE, alerts |-> TRUE]]_vars

\* C14 witness: the second cycle has just started, after the first one stored
\* the results of its three steps
C14_Witness ==
    /\ cycle = 2
    /\ pc = "check_health"
    /\ written = [health |-> 1, logs |-> 1, alerts |-> 1]

----------------------------------------------------------------------------
(* Several ISSUE entries for one pair *)

\* the places of the ISSUE entries for (user, vehicle) in the feed
IssueEntries(logs, user, vehicle) ==
    {i \in DOMAIN logs : IsEntry(logs[i], "ISSUE", user, vehicle)}

\* the same, leaving out the entries whose timestamp does not parse
ParsableIssueEntries(logs, user, vehicle) ==
    {i \in IssueEntries(logs, user, vehicle) : Parsable(logs[i])}

LastOf(S) == CHOOSE i \in S : \A j \in S : j <= i

BookedPair(logs, user, vehicle) ==
    \E j \in DOMAIN logs : Parsable(logs[j]) /\ IsEntry(logs[j], "BOOKING", user, vehicle)

\* the entry is HIGH and stamped more than 7 days before n
HighAndStale(log, n) ==
    /\ log.severity = Some("HIGH")
    /\ log.timestamp.kind = "aware"
    /\ log.timestamp.t < n - 7 * 24 * 60

\* C15 as stated: where a pair has several ISSUE entries, rules 4 and 5 go by
\* the last of them in feed order: a booked pair has the low-certainty alert
\* exactly when that entry's certainty is below 50, and the vehicle has the
\* ignored-risk alert exactly when, for some user, that entry is HIGH and older
\* than 7 days and the pair is not booked.
C15_LastIssueEntryWins ==
    Evaluated =>
      \A user \in UsersOf(cached_logs), vehicle \in VehiclesOf(cached_logs) :
        Cardinality(IssueEntries(cached_logs, user, vehicle)) >= 2 =>
          /\ BookedPair(cached_logs, user, vehicle) =>
                (LowCertaintyText(user, vehicle) \in Published
                   <=> CertaintyAt(cached_logs,
                                   LastOf(IssueEntries(cached_logs, user, vehicle))) < 50)
          /\ IgnoredText(vehicle) \in Published
                <=> \E u \in UsersOf(cached_logs) :
                      /\ IssueEntries(cached_logs, u, vehicle) # {}
                      /\ HighAndStale(
                            cached_logs[LastOf(IssueEntries(cached_logs, u, vehicle))], now)
                      /\ ~BookedPair(cached_logs, u, vehicle)

\* C15 amended: the same, where the ISSUE entries are those with a parsable
\* timestamp: the last of these in feed order is the record of the pair.
C15_LastParsableIssueEntryWins ==
    Evaluated =>
      \A user \in UsersOf(cached_logs), vehicle \in VehiclesOf(cached_logs) :
        Cardinality(ParsableIssueEntries(cached_logs, user, vehicle)) >= 2 =>
          /\ BookedPair(cached_logs, user, vehicle) =>
                (LowCertaintyText(user, vehicle) \in Published
                   <=> CertaintyAt(cached_logs,
                                   LastOf(ParsableIssueEntries(cached_logs, user, vehicle))) < 50)
          /\ IgnoredText(vehicle) \in Published
                <=> \E u \in UsersOf(cached_logs) :
                      /\ ParsableIssueEntries(cached_logs, u, vehicle) # {}
                      /\ HighAndStale(
                            cached_logs[LastOf(ParsableIssueEntries(cached_logs, u, vehicle))],
                            now)
                      /\ ~BookedPair(cached_logs, u, vehicle)

\* C15 witness: the entry delivered last is the older one, it is HIGH with
\* certainty 40, and it decides both rules: the booked pair gets the
\* low-certainty alert although the newer entry has certainty 60
C15_Witness ==
    /\ Evaluated
    /\ cached_logs = <<Issue(Recent, "U1", "V1", "LOW", Some(60)),
                       Issue(Stale, "U1", "V1", "HIGH", Some(40)),
                       Booking(Recent, "U1", "V1")>>
    /\ Published = {"Suspicious: U1 booked V1 despite low certainty"}

----------------------------------------------------------------------------
(* The window of the booking count *)

\* user_booking_count as the loop of the engine leaves it for the snapshot
BookingCount(logs, user, n) ==
    DictGet(Aggregate(logs, 1, NoAggregates, n - WINDOW_MINUTES).user_booking_count, user, 0)

\* C16: for every user the booking count of the engine is the number of the
\* user's BOOKING entries stamped within the 5 minutes that end at now; an
\* entry stamped later than now is not counted, like one older than 5 minutes.
C16_CountOnlyTrailingWindow ==
    Evaluated =>
      \A user \in UsersOf(cached_logs) :
        BookingCount(cached_logs, user, now)
          = Cardinality(BookingsInLastFiveMinutes(cached_logs, user, now))

----------------------------------------------------------------------------
(* Rules 2 and 5 on one pair *)

\* C17: no published list holds, for one (user, vehicle) pair, both the alert
\* that the user booked the vehicle without ISSUE record and the alert that
\* the user booked it despite low certainty.
C17_OrphanExcludesLowCertainty ==
    Evaluated =>
      \A user \in UsersOf(cached_logs), vehicle \in VehiclesOf(cached_logs) :
        ~(/\ OrphanText(user, vehicle) \in Published
          /\ LowCertaintyText(user, vehicle) \in Published)

\* C17 witness: both rules fire in one evaluation, on different pairs: U1
\* booked V1 on a record of certainty 40, U2 booked V1 without a record
C17_Witness ==
    /\ Evaluated
    /\ cached_logs = <<Issue(Stale, "U1", "V1", "HIGH", Some(40)),
                       Booking(Recent, "U1", "V1"), Booking(Recent, "U2", "V1")>>
    /\ Published = {"Suspicious: U1 booked V1 despite low certainty",
                    "Suspicious: U2 booked V1 without ISSUE record",
                    "Ownership anomaly: Vehicle V1 used by multiple users"}

====
